---- MODULE Spec2Model ----
(***************************************************************************)
(* Dispatch-GSW: the serial reader thread (line interpreter and packet     *)
(* assembler) of src-tauri/src/serial.rs together with the extractor       *)
(* parse_zephyr_line of src-tauri/src/deputy_interpreter.rs and the        *)
(* open_port / close_port commands that start and stop the reader.         *)
(***************************************************************************)
EXTENDS Integers, Sequences, FiniteSets, TLC

\* Bounds of the model.
MaxLines == 3      \* lines the serial port delivers between open and close
MaxOpens == 2      \* successful open_port calls over a whole run
MaxMerges == 3     \* partial records merged in a row when merge_packet is checked alone
MaxEmitFail == 1   \* 'serial-packet' emissions the sink rejects between open and close
MaxExtracts == 3   \* lines handed to parse_zephyr_line when it is checked alone

Threads == 1..MaxOpens

\* Option<T>: None is the empty tuple, Some(v) the one-element tuple.
None == <<>>
Some(v) == <<v>>

------------------------------------------------------------------------------
(* The input alphabet: the texts the port can deliver, each with the segments *)
(* the regular expressions of deputy_interpreter.rs see in it, left to right. *)
(* A number is the value its decimal digits denote. A status segment carries   *)
(* its label as spelled on the line and the token the fix-status rule would    *)
(* capture after it (one word, or two words separated by white space).         *)
(* <U+017F> stands for the one character LATIN SMALL LETTER LONG S.            *)

Lines ==
  { "Node 3: (20 bytes | -72 dBm | 9 dB):",
    "Node 300: (20 bytes | -40000 dBm | 200 dB):",
    "KD2YIE-1: (13 bytes | -80 dBm | 7 dB):",
    "Callsign: W1AW",
    "Fix status: FIX",
    "Fix status: 3D",
    "garbage line",
    "Node 5: (10 bytes | -60 dBm | 5 dB): Fix status: DIFF",
    "Fix <U+017F>tatus: FIX" }

\* Lines the extractor is checked on in addition to Lines.
MoreLines ==
  { "Latitude: 37.1234",
    "Longitude: -122.5678",
    "Satellites count: 8",
    "No fix acquired",
    "KD2YIE-1: (13 bytes | -80 dBm | 7 dB): Callsign: W1AW",
    "Node 3: (20 bytes | -72 dBm | 9 dB): Callsign: W1AW",
    "rx KD2YIE-1: (13 bytes | -80 dBm | 7 dB):",
    "Node 300: (20 bytes | -72 dBm | 9 dB):",
    "Node 3: (20 bytes | -40000 dBm | 9 dB):",
    "Node 3: (20 bytes | -72 dBm | 200 dB):",
    "Node 255: (20 bytes | -32768 dBm | -128 dB):",
    "Node 256: (20 bytes | 32768 dBm | 128 dB):",
    "KD2YIE-256: (13 bytes | -80 dBm | 7 dB):",
    "Satellites count: 300",
    "Satellites count: 300 Latitude: 37.1234",
    "Fix status: NO FIX",
    "Fix status: DIFF",
    "Fix status: EST",
    "Fix status: fix",
    "Fix status: NODIFF",
    "Fix status: DIFFEST",
    "Fix status: ESTFIX",
    "Fix status:",
    "No fix acquired Fix status: 3D",
    "Fix status: FIX No fix acquired",
    "Fix status: no",
    "Fix status: EST DIFF",
    "Latitude: 37.1234 Longitude: -122.5678 Satellites count: 8",
    "Node 3: (20 bytes | -72 dBm | 9 dB): No fix acquired" }

ExtractLines == Lines \cup MoreLines

Node(id, rssi, snr) == [k |-> "node", id |-> id, rssi |-> rssi, snr |-> snr]
Lic(cs, id, rssi, snr) == [k |-> "lic", cs |-> cs, id |-> id, rssi |-> rssi, snr |-> snr]
FixSeg(label, tok) == [k |-> "fix", label |-> label, tok |-> tok]
NoFixSeg(label) == [k |-> "nofix", label |-> label]

SegTable ==
  [ line \in ExtractLines |->
  CASE line = "Node 3: (20 bytes | -72 dBm | 9 dB):" -> << Node(3, -72, 9) >>
    [] line = "Node 300: (20 bytes | -40000 dBm | 200 dB):" -> << Node(300, -40000, 200) >>
    [] line = "KD2YIE-1: (13 bytes | -80 dBm | 7 dB):" -> << Lic("KD2YIE", 1, -80, 7) >>
    [] line = "Latitude: 37.1234" -> << [k |-> "lat", v |-> 371234] >>
    [] line = "Longitude: -122.5678" -> << [k |-> "lon", v |-> -1225678] >>
    [] line = "Satellites count: 8" -> << [k |-> "sats", n |-> 8] >>
    [] line = "Callsign: W1AW" -> << [k |-> "cs", cs |-> "W1AW"] >>
    [] line = "Fix status: FIX" -> << FixSeg("Fix status:", <<"F", "I", "X">>) >>
    [] line = "Fix status: 3D" -> << FixSeg("Fix status:", <<"3", "D">>) >>
    [] line = "No fix acquired" -> << NoFixSeg("No fix acquired") >>
    [] line = "garbage line" -> << [k |-> "junk"] >>
    [] line = "Node 5: (10 bytes | -60 dBm | 5 dB): Fix status: DIFF" ->
         << Node(5, -60, 5), FixSeg("Fix status:", <<"D", "I", "F", "F">>) >>
    [] line = "Fix <U+017F>tatus: FIX" ->
         << FixSeg("Fix <U+017F>tatus:", <<"F", "I", "X">>) >>
    [] line = "KD2YIE-1: (13 bytes | -80 dBm | 7 dB): Callsign: W1AW" ->
         << Lic("KD2YIE", 1, -80, 7), [k |-> "cs", cs |-> "W1AW"] >>
    [] line = "Node 3: (20 bytes | -72 dBm | 9 dB): Callsign: W1AW" ->
         << Node(3, -72, 9), [k |-> "cs", cs |-> "W1AW"] >>
    [] line = "rx KD2YIE-1: (13 bytes | -80 dBm | 7 dB):" ->
         << [k |-> "junk"], Lic("KD2YIE", 1, -80, 7) >>
    [] line = "Node 300: (20 bytes | -72 dBm | 9 dB):" -> << Node(300, -72, 9) >>
    [] line = "Node 3: (20 bytes | -40000 dBm | 9 dB):" -> << Node(3, -40000, 9) >>
    [] line = "Node 3: (20 bytes | -72 dBm | 200 dB):" -> << Node(3, -72, 200) >>
    [] line = "Node 255: (20 bytes | -32768 dBm | -128 dB):" -> << Node(255, -32768, -128) >>
    [] line = "Node 256: (20 bytes | 32768 dBm | 128 dB):" -> << Node(256, 32768, 128) >>
    [] line = "KD2YIE-256: (13 bytes | -80 dBm | 7 dB):" -> << Lic("KD2YIE", 256, -80, 7) >>
    [] line = "Satellites count: 300" -> << [k |-> "sats", n |-> 300] >>
    [] line = "Satellites count: 300 Latitude: 37.1234" ->
         << [k |-> "sats", n |-> 300], [k |-> "lat", v |-> 371234] >>
    [] line = "Fix status: NO FIX" ->
         << FixSeg("Fix status:", <<"N", "O", " ", "F", "I", "X">>) >>
    [] line = "Fix status: DIFF" -> << FixSeg("Fix status:", <<"D", "I", "F", "F">>) >>
    [] line = "Fix status: EST" -> << FixSeg("Fix status:", <<"E", "S", "T">>) >>
    [] line = "Fix status: fix" -> << FixSeg("Fix status:", <<"f", "i", "x">>) >>
    [] line = "Fix status: NODIFF" ->
         << FixSeg("Fix status:", <<"N", "O", "D", "I", "F", "F">>) >>
    [] line = "Fix status: DIFFEST" ->
         << FixSeg("Fix status:", <<"D", "I", "F", "F", "E", "S", "T">>) >>
    [] line = "Fix status: ESTFIX" ->
         << FixSeg("Fix status:", <<"E", "S", "T", "F", "I", "X">>) >>
    [] line = "Fix status:" -> << FixSeg("Fix status:", <<>>) >>
    [] line = "No fix acquired Fix status: 3D" ->
         << NoFixSeg("No fix acquired"), FixSeg("Fix status:", <<"3", "D">>) >>
    [] line = "Fix status: FIX No fix acquired" ->
         << FixSeg("Fix status:", <<"F", "I", "X", " ", "N", "o">>),
            NoFixSeg("No fix acquired") >>
    [] line = "Fix status: no" -> << FixSeg("Fix status:", <<"n", "o">>) >>
    [] line = "Fix status: EST DIFF" ->
         << FixSeg("Fix status:", <<"E", "S", "T", " ", "D", "I", "F", "F">>) >>
    [] line = "Latitude: 37.1234 Longitude: -122.5678 Satellites count: 8" ->
         << [k |-> "lat", v |-> 371234], [k |-> "lon", v |-> -1225678],
            [k |-> "sats", n |-> 8] >>
    [] line = "Node 3: (20 bytes | -72 dBm | 9 dB): No fix acquired" ->
         << Node(3, -72, 9), NoFixSeg("No fix acquired") >> ]

\* The segments of a line, left to right.
Segs(line) == SegTable[line]

\* The leftmost of the segments s whose position is in idx, None when idx is empty.
Leftmost(s, idx) ==
  IF idx = {} THEN None ELSE Some(s[CHOOSE i \in idx : \A j \in idx : i <= j])

\* Leftmost segment of kind k among the segments s.
FirstOfKind(s, k) == Leftmost(s, { i \in 1..Len(s) : s[i].k = k })

\* Leftmost segment of kind k in the line (a regex search returns the leftmost match).
FirstSeg(line, k) == FirstOfKind(Segs(line), k)

------------------------------------------------------------------------------
(* deputy_interpreter.rs *)

\* (?i)node\s+(\d+):\s*\(\d+\s*bytes\s*\|\s*(-?\d+)\s*dBm\s*\|\s*(-?\d+)\s*dB, unanchored
RE_HEADER_NODE(line) == FirstSeg(line, "node")

\* The segment of kind k the segments s begin with, None when they begin otherwise.
AtStart(s, k) == IF Len(s) > 0 /\ s[1].k = k THEN Some(s[1]) ELSE None

\* ^([A-Z0-9/\-]{3,12})-(\d+):\s*\(...: anchored at the start of the line
RE_HEADER_LICENSED_NOFIX(line) == AtStart(Segs(line), "lic")

RE_LAT(line) == FirstSeg(line, "lat")
RE_LON(line) == FirstSeg(line, "lon")
RE_SATS(line) == FirstSeg(line, "sats")
RE_CALLSIGN(line) == FirstSeg(line, "cs")

\* The label as the (?i) flag of the regex crate reads it: Unicode simple case
\* folding, under which s, S and U+017F are one letter.
case_fold(label) ==
  CASE label = "Fix status:" -> "fix status:"
    [] label = "Fix <U+017F>tatus:" -> "fix status:"
    [] label = "No fix acquired" -> "no fix acquired"

\* str::to_lowercase: U+017F is a lowercase letter already and stays as it is.
to_lowercase(label) ==
  CASE label = "Fix status:" -> "fix status:"
    [] label = "Fix <U+017F>tatus:" -> "fix <U+017F>tatus:"
    [] label = "No fix acquired" -> "no fix acquired"

\* The leftmost fix-status label, in any case, that a token follows.
FirstFixToken(s) ==
  Leftmost(s, { i \in 1..Len(s) :
                  /\ s[i].k = "fix"
                  /\ case_fold(s[i].label) = "fix status:"
                  /\ Len(s[i].tok) > 0 })

\* (?i)fix status:\s*(\S+(?:\s+\S+)?): the label followed by at least one token character
RE_FIX(line) == FirstFixToken(Segs(line))

HasNoFixPhrase(s) ==
  \E i \in 1..Len(s) : s[i].k = "nofix" /\ case_fold(s[i].label) = "no fix acquired"

\* (?i)no fix acquired
RE_NOFIX(line) == HasNoFixPhrase(Segs(line))

\* Faulty variant: an out-of-range number wraps around instead of failing.
parse_u8_wrapping(n) == Some(n % 256)

\* str::parse::<u8>, ::<i16>, ::<i8>, ::<f32> followed by .ok()
parse_u8(n) == IF n >= 0 /\ n <= 255 THEN Some(n) ELSE None
parse_i16(n) == IF n >= -32768 /\ n <= 32767 THEN Some(n) ELSE None
parse_i8(n) == IF n >= -128 /\ n <= 127 THEN Some(n) ELSE None
parse_f32(v) == Some(v)

to_uppercase_char(c) ==
  CASE c = "f" -> "F" [] c = "i" -> "I" [] c = "x" -> "X" [] c = "n" -> "N"
    [] c = "o" -> "O" [] c = "d" -> "D" [] c = "e" -> "E" [] c = "s" -> "S"
    [] c = "t" -> "T" [] OTHER -> c
to_uppercase(s) == [i \in 1..Len(s) |-> to_uppercase_char(s[i])]

contains(s, sub) ==
  \E i \in 1..(Len(s) - Len(sub) + 1) : SubSeq(s, i, i + Len(sub) - 1) = sub

\* telemetry.rs: DataPacket::default()
DefaultPacket ==
  [ node_id |-> None, latitude |-> None, longitude |-> None,
    satellites_count |-> None, fix_status |-> "Unknown",
    receiver_rssi |-> None, receiver_snr |-> None, callsign |-> None,
    timestamp_ms |-> 0, raw_lines |-> <<>> ]

OptFields ==
  { "node_id", "latitude", "longitude", "satellites_count",
    "receiver_rssi", "receiver_snr", "callsign" }

\* Faulty variant: FIX is tested before EST.
fix_status_of_fix_first(tok) ==
  LET val == to_uppercase(tok)
  IN IF contains(val, <<"N", "O">>) THEN "NoFix"
     ELSE IF contains(val, <<"D", "I", "F", "F">>) THEN "Diff"
     ELSE IF contains(val, <<"F", "I", "X">>) THEN "Fix"
     ELSE IF contains(val, <<"E", "S", "T">>) THEN "Est"
     ELSE "Unknown"

\* The status a fix-status token maps to.
fix_status_of(tok) ==
  LET val == to_uppercase(tok)
  IN IF contains(val, <<"N", "O">>) THEN "NoFix"
     ELSE IF contains(val, <<"D", "I", "F", "F">>) THEN "Diff"
     ELSE IF contains(val, <<"E", "S", "T">>) THEN "Est"
     ELSE IF contains(val, <<"F", "I", "X">>) THEN "Fix"
     ELSE "Unknown"

\* The header fields of a line: rule A, else rule B.
header_fields(line, pkt) ==
  LET a == RE_HEADER_NODE(line)
      b == RE_HEADER_LICENSED_NOFIX(line)
  IN IF a # None
       THEN [pkt EXCEPT !.node_id = parse_u8(a[1].id),
                        !.receiver_rssi = parse_i16(a[1].rssi),
                        !.receiver_snr = parse_i8(a[1].snr)]
     ELSE IF b # None
       THEN [pkt EXCEPT !.callsign = Some(b[1].cs),
                        !.node_id = parse_u8(b[1].id),
                        !.receiver_rssi = parse_i16(b[1].rssi),
                        !.receiver_snr = parse_i8(b[1].snr)]
     ELSE pkt

body_fields(line, pkt) ==
  LET lat == RE_LAT(line)
      lon == RE_LON(line)
      sats == RE_SATS(line)
      cs == RE_CALLSIGN(line)
      p1 == IF lat # None THEN [pkt EXCEPT !.latitude = parse_f32(lat[1].v)] ELSE pkt
      p2 == IF lon # None THEN [p1 EXCEPT !.longitude = parse_f32(lon[1].v)] ELSE p1
      p3 == IF sats # None THEN [p2 EXCEPT !.satellites_count = parse_u8(sats[1].n)] ELSE p2
  IN IF cs # None THEN [p3 EXCEPT !.callsign = Some(cs[1].cs)] ELSE p3

status_field(line, pkt) ==
  LET f == RE_FIX(line)
  IN IF f # None THEN [pkt EXCEPT !.fix_status = fix_status_of(f[1].tok)]
     ELSE IF RE_NOFIX(line) THEN [pkt EXCEPT !.fix_status = "NoFix"]
     ELSE pkt

meaningful(pkt) ==
  \/ \E f \in OptFields : pkt[f] # None
  \/ pkt.fix_status # "Unknown"

\* parse_zephyr_line(line) at clock reading now: Ok(pkt) or Err(NoMatch).
parse_zephyr_line(line, now) ==
  LET p0 == [DefaultPacket EXCEPT !.timestamp_ms = now, !.raw_lines = <<line>>]
      pkt == status_field(line, body_fields(line, header_fields(line, p0)))
  IN IF meaningful(pkt) THEN [tag |-> "Ok", val |-> pkt]
     ELSE [tag |-> "Err", val |-> "NoMatch"]

------------------------------------------------------------------------------
(* serial.rs: the reader thread spawned by open_port *)

VARIABLES
  state,     \* GLOBAL_STATE: stop_flag, handle, writer, each None or Some(thread)
  joining,   \* the thread close_port is joining while it holds the state mutex, or None
  ret,       \* the result of the last command that returned
  opens,     \* successful open_port calls so far
  rpc,       \* per reader thread: "unborn", "loop", "read", "flush" or "done"
  stop,      \* per reader thread: the value of its stop AtomicBool
  eof,       \* per reader thread: its (still open) port has reported end of stream
  current,   \* per reader thread: the in-progress record, None or Some(DataPacket)
  clock,     \* now_ms(): readings taken since the port was last opened
  events,    \* every app.emit call since the port was last opened, in order
  last       \* the most recent line-processing or flush step of a reader thread

vars == <<state, joining, ret, opens, rpc, stop, eof, current, clock, events, last>>

Event(ev, payload, ok) == [ev |-> ev, payload |-> payload, ok |-> ok]

\* let _ = app.emit("serial-packet", pkt): one emit call, its result dropped.
emit_packet(pkt, ok) == << Event("serial-packet", pkt, ok) >>

\* Faulty variant: the source lines are replaced instead of extended.
merge_packet_replace_lines(dst, src) ==
  [src EXCEPT
     !.node_id = IF src.node_id # None THEN src.node_id ELSE dst.node_id,
     !.latitude = IF src.latitude # None THEN src.latitude ELSE dst.latitude,
     !.longitude = IF src.longitude # None THEN src.longitude ELSE dst.longitude,
     !.satellites_count =
       IF src.satellites_count # None THEN src.satellites_count ELSE dst.satellites_count,
     !.receiver_rssi =
       IF src.receiver_rssi # None THEN src.receiver_rssi ELSE dst.receiver_rssi,
     !.receiver_snr = IF src.receiver_snr # None THEN src.receiver_snr ELSE dst.receiver_snr,
     !.callsign = IF src.callsign # None THEN src.callsign ELSE dst.callsign,
     !.fix_status = IF src.fix_status # "Unknown" THEN src.fix_status ELSE dst.fix_status]

\* Faulty variant: latitude is copied without the is_some() test.
merge_packet_overwrite_latitude(dst, src) ==
  [ node_id |-> IF src.node_id # None THEN src.node_id ELSE dst.node_id,
    latitude |-> src.latitude,
    longitude |-> IF src.longitude # None THEN src.longitude ELSE dst.longitude,
    satellites_count |->
      IF src.satellites_count # None THEN src.satellites_count ELSE dst.satellites_count,
    receiver_rssi |->
      IF src.receiver_rssi # None THEN src.receiver_rssi ELSE dst.receiver_rssi,
    receiver_snr |-> IF src.receiver_snr # None THEN src.receiver_snr ELSE dst.receiver_snr,
    callsign |-> IF src.callsign # None THEN src.callsign ELSE dst.callsign,
    fix_status |-> IF src.fix_status # "Unknown" THEN src.fix_status ELSE dst.fix_status,
    timestamp_ms |-> src.timestamp_ms,
    raw_lines |-> dst.raw_lines \o src.raw_lines ]

\* Faulty variant: the timestamp of the record in progress is kept.
merge_packet_keep_timestamp(dst, src) ==
  [ node_id |-> IF src.node_id # None THEN src.node_id ELSE dst.node_id,
    latitude |-> IF src.latitude # None THEN src.latitude ELSE dst.latitude,
    longitude |-> IF src.longitude # None THEN src.longitude ELSE dst.longitude,
    satellites_count |->
      IF src.satellites_count # None THEN src.satellites_count ELSE dst.satellites_count,
    receiver_rssi |->
      IF src.receiver_rssi # None THEN src.receiver_rssi ELSE dst.receiver_rssi,
    receiver_snr |-> IF src.receiver_snr # None THEN src.receiver_snr ELSE dst.receiver_snr,
    callsign |-> IF src.callsign # None THEN src.callsign ELSE dst.callsign,
    fix_status |-> IF src.fix_status # "Unknown" THEN src.fix_status ELSE dst.fix_status,
    timestamp_ms |-> dst.timestamp_ms,
    raw_lines |-> dst.raw_lines \o src.raw_lines ]

merge_packet(dst, src) ==
  [ node_id |-> IF src.node_id # None THEN src.node_id ELSE dst.node_id,
    latitude |-> IF src.latitude # None THEN src.latitude ELSE dst.latitude,
    longitude |-> IF src.longitude # None THEN src.longitude ELSE dst.longitude,
    satellites_count |->
      IF src.satellites_count # None THEN src.satellites_count ELSE dst.satellites_count,
    receiver_rssi |->
      IF src.receiver_rssi # None THEN src.receiver_rssi ELSE dst.receiver_rssi,
    receiver_snr |-> IF src.receiver_snr # None THEN src.receiver_snr ELSE dst.receiver_snr,
    callsign |-> IF src.callsign # None THEN src.callsign ELSE dst.callsign,
    fix_status |-> IF src.fix_status # "Unknown" THEN src.fix_status ELSE dst.fix_status,
    timestamp_ms |-> src.timestamp_ms,
    raw_lines |-> dst.raw_lines \o src.raw_lines ]

is_packet_start(line) ==
  RE_HEADER_NODE(line) # None \/ RE_HEADER_LICENSED_NOFIX(line) # None

HasEndLabel(s) ==
  \E i \in 1..Len(s) :
    /\ s[i].k \in {"fix", "nofix"}
    /\ to_lowercase(s[i].label) \in {"fix status:", "no fix acquired"}

\* line.to_lowercase() contains "fix status:" or "no fix acquired"
is_packet_end(line) == HasEndLabel(Segs(line))

\* Faulty variant: the record in progress is flushed at every line, header or not.
flush_before_start_always(cur, line, ok) ==
  IF cur # None
    THEN [current |-> None, out |-> emit_packet(cur[1], ok)]
    ELSE [current |-> cur, out |-> <<>>]

\* Faulty variant: the old record is emitted but not taken out of the slot.
flush_before_start_keep(cur, line, ok) ==
  IF is_packet_start(line) /\ cur # None
    THEN [current |-> cur, out |-> emit_packet(cur[1], ok)]
    ELSE [current |-> cur, out |-> <<>>]

\* if is_packet_start { if let Some(prev) = current.take() { emit_packet(prev) } }
flush_before_start(cur, line, ok) ==
  IF is_packet_start(line) /\ cur # None
    THEN [current |-> None, out |-> emit_packet(cur[1], ok)]
    ELSE [current |-> cur, out |-> <<>>]

\* Faulty variant: the partial record replaces the record in progress.
absorb_replace(cur, pkt_part) == Some(pkt_part)

\* Ok(pkt_part): merge into the record in progress, or start one.
absorb(cur, pkt_part) ==
  IF cur # None THEN Some(merge_packet(cur[1], pkt_part)) ELSE Some(pkt_part)

\* Faulty variant: a record whose emission failed is kept in the slot to be sent again.
emit_on_end_retry(cur, line, ok) ==
  IF is_packet_end(line) /\ cur # None
    THEN [current |-> IF ok THEN None ELSE cur, out |-> emit_packet(cur[1], ok)]
    ELSE [current |-> cur, out |-> <<>>]

\* Faulty variant: the record is emitted after every line that extracts.
emit_on_end_every_line(cur, line, ok) ==
  IF cur # None
    THEN [current |-> None, out |-> emit_packet(cur[1], ok)]
    ELSE [current |-> cur, out |-> <<>>]

\* if is_packet_end { if let Some(done) = current.take() { emit_packet(done) } }
emit_on_end(cur, line, ok) ==
  IF is_packet_end(line) /\ cur # None
    THEN [current |-> None, out |-> emit_packet(cur[1], ok)]
    ELSE [current |-> cur, out |-> <<>>]

\* Faulty variant: a line that fails to parse resets the record in progress.
on_parse_result_reset(cur, res, line, ok) ==
  IF res.tag = "Ok"
    THEN emit_on_end(absorb(cur, res.val), line, ok)
    ELSE [current |-> None,
          out |-> << Event("serial-parse-error", [line |-> line, error |-> res.val],
                           TRUE) >>]

\* Faulty variant: a line that fails to parse starts a record holding only the line.
on_parse_result_start_empty(cur, res, line, ok) ==
  IF res.tag = "Ok"
    THEN emit_on_end(absorb(cur, res.val), line, ok)
    ELSE [current |-> absorb(cur, [DefaultPacket EXCEPT !.raw_lines = << line >>]),
          out |-> << Event("serial-parse-error", [line |-> line, error |-> res.val],
                           TRUE) >>]

\* match parse_zephyr_line(&line) { Ok(pkt_part) => ..., Err(e) => emit parse error }
on_parse_result(cur, res, line, ok) ==
  IF res.tag = "Ok"
    THEN emit_on_end(absorb(cur, res.val), line, ok)
    ELSE [current |-> cur,
          out |-> << Event("serial-parse-error", [line |-> line, error |-> res.val],
                           TRUE) >>]

\* The Ok(_) arm of the reader loop for one line.
process_line(cur, line, now, ok) ==
  LET s1 == flush_before_start(cur, line, ok)
      s2 == on_parse_result(s1.current, parse_zephyr_line(line, now), line, ok)
  IN [current |-> s2.current,
      out |-> << Event("serial-line", line, TRUE) >> \o s1.out \o s2.out]

\* Faulty variant: the pending record is dropped at shutdown.
shutdown_flush_drop(cur, ok) == [current |-> None, out |-> <<>>]

\* if let Some(pending) = current.take() { emit_packet(pending) }
shutdown_flush(cur, ok) ==
  IF cur # None
    THEN [current |-> None, out |-> emit_packet(cur[1], ok)]
    ELSE [current |-> None, out |-> <<>>]

Packets(evs) == SelectSeq(evs, LAMBDA e : e.ev = "serial-packet")
Failed(evs) == SelectSeq(evs, LAMBDA e : e.ev = "serial-packet" /\ ~e.ok)

\* The sink may reject an emission; the reader drops the result either way.
EmitResults == IF Len(Failed(events)) < MaxEmitFail THEN {TRUE, FALSE} ELSE {TRUE}

NoStep == [op |-> "none"]

Init ==
  /\ state = [stop_flag |-> None, handle |-> None, writer |-> None]
  /\ joining = None
  /\ ret = "none"
  /\ opens = 0
  /\ rpc = [t \in Threads |-> "unborn"]
  /\ stop = [t \in Threads |-> FALSE]
  /\ eof = [t \in Threads |-> FALSE]
  /\ current = [t \in Threads |-> None]
  /\ clock = 0
  /\ events = <<>>
  /\ last = NoStep

\* while !stop_cloned.load(Ordering::Relaxed)
CheckStop(t) ==
  /\ rpc[t] = "loop"
  /\ rpc' = [rpc EXCEPT ![t] = IF stop[t] THEN "flush" ELSE "read"]
  /\ UNCHANGED <<state, joining, ret, opens, stop, eof, current, clock, events, last>>

\* read_line returned Ok(n), n > 0: the whole Ok(_) arm
ReadLine(t, line, ok) ==
  /\ rpc[t] = "read"
  /\ ~eof[t]
  /\ clock < MaxLines
  /\ LET r == process_line(current[t], line, clock + 1, ok)
     IN /\ current' = [current EXCEPT ![t] = r.current]
        /\ events' = events \o r.out
        /\ last' = [op |-> "line", tid |-> t, line |-> line, now |-> clock + 1,
                    before |-> current[t], after |-> r.current, out |-> r.out]
  /\ clock' = clock + 1
  /\ rpc' = [rpc EXCEPT ![t] = "loop"]
  /\ UNCHANGED <<state, joining, ret, opens, stop, eof>>

\* read_line returned Ok(0): continue
ReadEof(t) ==
  /\ rpc[t] = "read"
  /\ eof' = [eof EXCEPT ![t] = TRUE]
  /\ rpc' = [rpc EXCEPT ![t] = "loop"]
  /\ UNCHANGED <<state, joining, ret, opens, stop, current, clock, events, last>>

\* read_line returned Err(_) (the 500 ms timeout): continue
ReadErr(t) ==
  /\ rpc[t] = "read"
  /\ rpc' = [rpc EXCEPT ![t] = "loop"]
  /\ UNCHANGED <<state, joining, ret, opens, stop, eof, current, clock, events, last>>

\* After the loop: flush the pending record, then the thread ends.
Flush(t, ok) ==
  /\ rpc[t] = "flush"
  /\ LET r == shutdown_flush(current[t], ok)
     IN /\ current' = [current EXCEPT ![t] = r.current]
        /\ events' = events \o r.out
        /\ last' = [op |-> "flush", tid |-> t, before |-> current[t],
                    after |-> r.current, out |-> r.out, prev |-> last]
  /\ rpc' = [rpc EXCEPT ![t] = "done"]
  /\ eof' = [eof EXCEPT ![t] = FALSE]   \* the port is dropped with the thread
  /\ UNCHANGED <<state, joining, ret, opens, stop, clock>>

------------------------------------------------------------------------------
(* serial.rs: the commands; each holds the state mutex from start to return *)

\* Faulty variant: the handle is not looked at.
port_already_open_never(st) == FALSE

\* if state.handle.is_some() { return Err("Port already open") }
port_already_open(st) == st.handle # None

OpenPortAlready ==
  /\ joining = None
  /\ port_already_open(state)
  /\ ret' = "Port already open"
  /\ UNCHANGED <<state, joining, opens, rpc, stop, eof, current, clock, events, last>>

\* serialport open or try_clone failed
OpenPortFail ==
  /\ joining = None
  /\ ~port_already_open(state)
  /\ ret' = "Failed to open port"
  /\ UNCHANGED <<state, joining, opens, rpc, stop, eof, current, clock, events, last>>

OpenPortOk ==
  /\ joining = None
  /\ ~port_already_open(state)
  /\ opens < MaxOpens
  /\ LET t == opens + 1
     IN /\ rpc' = [rpc EXCEPT ![t] = "loop"]
        /\ stop' = [stop EXCEPT ![t] = FALSE]
        /\ current' = [current EXCEPT ![t] = None]
        /\ state' = [stop_flag |-> Some(t), handle |-> Some(t), writer |-> Some(t)]
  /\ opens' = opens + 1
  /\ ret' = "ok"
  /\ clock' = 0
  /\ events' = <<>>
  /\ last' = NoStep
  /\ UNCHANGED <<joining, eof>>

\* close_port up to handle.join(): drop the writer, raise the stop flag, take the handle
CloseBegin ==
  /\ joining = None
  /\ stop' = IF state.stop_flag # None
               THEN [stop EXCEPT ![state.stop_flag[1]] = TRUE] ELSE stop
  /\ state' = [stop_flag |-> None, handle |-> None, writer |-> None]
  /\ joining' = state.handle
  /\ ret' = IF state.handle = None THEN "closed" ELSE ret
  /\ UNCHANGED <<opens, rpc, eof, current, clock, events, last>>

\* Faulty variant: close_port returns without joining the reader thread.
CloseJoin_no_wait ==
  /\ joining # None
  /\ joining' = None
  /\ ret' = "closed"
  /\ UNCHANGED <<state, opens, rpc, stop, eof, current, clock, events, last>>

\* handle.join() returns once the reader thread has ended; Ok("closed")
CloseJoin ==
  /\ joining # None
  /\ rpc[joining[1]] = "done"
  /\ joining' = None
  /\ ret' = "closed"
  /\ UNCHANGED <<state, opens, rpc, stop, eof, current, clock, events, last>>

Next ==
  \/ \E t \in Threads : CheckStop(t)
  \/ \E t \in Threads :
       rpc[t] = "read" /\ \E ok \in EmitResults, line \in Lines : ReadLine(t, line, ok)
  \/ \E t \in Threads : ReadEof(t)
  \/ \E t \in Threads : ReadErr(t)
  \/ \E t \in Threads, ok \in EmitResults : Flush(t, ok)
  \/ OpenPortAlready
  \/ OpenPortFail
  \/ OpenPortOk
  \/ CloseBegin
  \/ CloseJoin

Spec == Init /\ [][Next]_vars

\* The steps of reader thread t. The operating system keeps scheduling a live
\* thread and every read returns (data, end of stream, or the 500 ms timeout),
\* so a reader that can step does step; nothing obliges anyone to call close_port.
ReaderNext(t) ==
  \/ CheckStop(t)
  \/ rpc[t] = "read" /\ \E ok \in EmitResults, line \in Lines : ReadLine(t, line, ok)
  \/ ReadEof(t)
  \/ ReadErr(t)
  \/ \E ok \in EmitResults : Flush(t, ok)

FairSpec == Spec /\ \A t \in Threads : WF_vars(ReaderNext(t))

------------------------------------------------------------------------------
(* The stop protocol on its own: the same commands and the same reader thread, *)
(* the port delivering only a header, a terminating line and a line that       *)
(* yields nothing. What close_port waits for does not depend on the text read. *)

CloseLines ==
  { "Node 3: (20 bytes | -72 dBm | 9 dB):", "Fix status: FIX", "garbage line" }

CloseReaderNext(t) ==
  \/ CheckStop(t)
  \/ rpc[t] = "read" /\ \E ok \in EmitResults, line \in CloseLines : ReadLine(t, line, ok)
  \/ ReadEof(t)
  \/ ReadErr(t)
  \/ \E ok \in EmitResults : Flush(t, ok)

CloseNext ==
  \/ \E t \in Threads : CloseReaderNext(t)
  \/ OpenPortAlready
  \/ OpenPortFail
  \/ OpenPortOk
  \/ CloseBegin
  \/ CloseJoin

\* A live reader keeps being scheduled and every read returns; a close_port that
\* waits in handle.join() returns once the join can return.
CloseFairSpec ==
  /\ Init
  /\ [][CloseNext]_vars
  /\ \A t \in Threads : WF_vars(CloseReaderNext(t))
  /\ WF_vars(CloseJoin)

------------------------------------------------------------------------------
(* Properties *)

\* What the classification and the extractor make of each line of the alphabet
\* (the extraction at clock reading 0).
LineInfo ==
  [ l \in Lines |->
      [ start |-> is_packet_start(l), end |-> is_packet_end(l),
        res |-> parse_zephyr_line(l, 0) ] ]
Extracts(l) == LineInfo[l].res.tag = "Ok"

Payloads(evs) == [i \in 1..Len(evs) |-> evs[i].payload]
LastIsLine == last.op = "line"
LastRes == parse_zephyr_line(last.line, last.now)
LastPackets == Payloads(Packets(last.out))

\* C1 as stated: processing one line emits zero or one completed record, never two
\* or more, whatever the record in progress and whatever the line's classification.
C1_AtMostOnePerLine == LastIsLine => Len(LastPackets) <= 1

\* C1 amended: processing one line emits at most two records, and two exactly when
\* the line is both packet-start and packet-end, a record was in progress before it
\* and its extraction succeeded; in every other case zero or one.
C1_AtMostTwoPerLine ==
  LastIsLine =>
    /\ Len(LastPackets) <= 2
    /\ Len(LastPackets) = 2 <=>
         /\ LineInfo[last.line].start
         /\ LineInfo[last.line].end
         /\ last.before # None
         /\ Extracts(last.line)

C1_Witness == LastIsLine /\ Len(LastPackets) = 2

\* C2: the reader ends only through the shutdown flush; the flush emits, as the
\* last event, exactly the record the last processed line left in progress (its
\* fields and source lines unchanged), once, and nothing when none is in progress;
\* no record stays in progress once the thread has ended.
C2_ShutdownFlush ==
  /\ \A t \in Threads :
       rpc[t] = "done" =>
         /\ current[t] = None
         /\ t = opens => last.op = "flush" /\ last.tid = t
  /\ last.op = "flush" =>
       /\ stop[last.tid]
       /\ last.before = (IF last.prev.op = "line" THEN last.prev.after ELSE None)
       /\ LastPackets = (IF last.before # None THEN << last.before[1] >> ELSE <<>>)
       /\ last.out = Packets(last.out)
       /\ last.after = None
       /\ Len(events) >= Len(last.out)
       /\ SubSeq(events, Len(events) - Len(last.out) + 1, Len(events)) = last.out

C2_Witness ==
  /\ last.op = "flush"
  /\ last.before # None
  /\ Len(last.before[1].raw_lines) >= 2
  /\ rpc[last.tid] = "done"

\* C3 as stated: once the port has reported end of stream while a record is in
\* progress, the reader eventually emits the record and ends, with no stop request.
C3_EofFlushes ==
  \A t \in Threads : (eof[t] /\ current[t] # None) ~> (rpc[t] = "done")

------------------------------------------------------------------------------
(* merge_packet on its own: a reader that is handed arbitrary partial records, *)
(* the first becoming the record in progress and each later one merged into it *)

FieldValue(f, v) ==
  CASE f = "node_id" -> v
    [] f = "latitude" -> 10 + v
    [] f = "longitude" -> 20 + v
    [] f = "satellites_count" -> 30 + v
    [] f = "receiver_rssi" -> -40 - v
    [] f = "receiver_snr" -> 50 + v
    [] f = "callsign" -> IF v = 1 THEN "KD2YIE" ELSE "W1AW"

\* The partial record with the fields of `present` set to their variant-v values.
Part(present, v, status) ==
  [ f \in OptFields \cup {"fix_status", "timestamp_ms", "raw_lines"} |->
      CASE f = "fix_status" -> status
        [] f = "timestamp_ms" -> 0
        [] f = "raw_lines" -> << "part" >>
        [] OTHER -> IF f \in present THEN Some(FieldValue(f, v)) ELSE None ]

MergeParts ==
  { Part({f}, v, "Unknown") : f \in OptFields, v \in {1, 2} }
    \cup { Part({}, 1, st) : st \in {"NoFix", "Fix", "Diff", "Est", "Unknown"} }
    \cup { Part(OptFields, v, st) : v \in {1, 2}, st \in {"Unknown", "Fix"} }

MergeInit ==
  /\ state = [stop_flag |-> Some(1), handle |-> Some(1), writer |-> Some(1)]
  /\ joining = None
  /\ ret = "ok"
  /\ opens = 1
  /\ rpc = [t \in Threads |-> IF t = 1 THEN "read" ELSE "unborn"]
  /\ stop = [t \in Threads |-> FALSE]
  /\ eof = [t \in Threads |-> FALSE]
  /\ current = [t \in Threads |-> None]
  /\ clock = 0
  /\ events = <<>>
  /\ last = NoStep

\* if let Some(existing) = current.as_mut() { merge_packet(existing, pkt_part) }
\* else { current = Some(pkt_part) }
MergeStep(part) ==
  /\ clock < MaxMerges
  /\ LET src == [part EXCEPT !.timestamp_ms = clock + 1]
         new == absorb(current[1], src)
     IN /\ current' = [current EXCEPT ![1] = new]
        /\ last' = [op |-> "merge", before |-> current[1], src |-> src, after |-> new]
  /\ clock' = clock + 1
  /\ UNCHANGED <<state, joining, ret, opens, rpc, stop, eof, events>>

MergeNext == \E part \in MergeParts : MergeStep(part)

MergeSpec == MergeInit /\ [][MergeNext]_vars

\* C4: in every merge into the record in progress, each optional field present
\* before is present after, a field's value changes only to the incoming record's
\* present value, and fix_status changes only to an incoming status other than
\* Unknown, so a status other than Unknown is never replaced by Unknown.
C4_FieldNonRegression ==
  (last.op = "merge" /\ last.before # None) =>
    LET dst == last.before[1]
        src == last.src
        new == last.after[1]
    IN /\ \A f \in OptFields :
            /\ dst[f] # None => new[f] # None
            /\ new[f] # dst[f] => (src[f] # None /\ new[f] = src[f])
       /\ new.fix_status # dst.fix_status =>
            (src.fix_status # "Unknown" /\ new.fix_status = src.fix_status)
       /\ dst.fix_status # "Unknown" => new.fix_status # "Unknown"

C4_Witness ==
  /\ last.op = "merge"
  /\ last.before # None
  /\ last.before[1].fix_status # "Unknown"
  /\ last.src.fix_status = "Unknown"
  /\ \E f \in OptFields : last.before[1][f] # None /\ last.src[f] = None
  /\ \E f \in OptFields :
       /\ last.before[1][f] # None
       /\ last.src[f] # None
       /\ last.src[f] # last.before[1][f]
       /\ last.after[1][f] = last.src[f]
  /\ Len(last.before[1].raw_lines) >= 2

------------------------------------------------------------------------------
(* parse_zephyr_line on its own: the extractor is handed arbitrary lines *)

ExtractInit ==
  /\ state = [stop_flag |-> Some(1), handle |-> Some(1), writer |-> Some(1)]
  /\ joining = None
  /\ ret = "ok"
  /\ opens = 1
  /\ rpc = [t \in Threads |-> IF t = 1 THEN "read" ELSE "unborn"]
  /\ stop = [t \in Threads |-> FALSE]
  /\ eof = [t \in Threads |-> FALSE]
  /\ current = [t \in Threads |-> None]
  /\ clock = 0
  /\ events = <<>>
  /\ last = NoStep

\* parse_zephyr_line(&line) at the next clock reading
ExtractStep(line) ==
  /\ clock < MaxExtracts
  /\ last' = [op |-> "extract", line |-> line, now |-> clock + 1,
              res |-> parse_zephyr_line(line, clock + 1)]
  /\ clock' = clock + 1
  /\ UNCHANGED <<state, joining, ret, opens, rpc, stop, eof, current, events>>

ExtractNext == \E line \in ExtractLines : ExtractStep(line)

ExtractSpec == ExtractInit /\ [][ExtractNext]_vars

LastIsExtract == last.op = "extract"

\* C12 as stated: for a line that matches header rule B and also holds a labelled
\* callsign token, the extracted callsign is the one from the header.
C12_HeaderCallsignKept ==
  LET b == RE_HEADER_LICENSED_NOFIX(last.line)
  IN (/\ LastIsExtract
      /\ RE_HEADER_NODE(last.line) = None
      /\ b # None
      /\ RE_CALLSIGN(last.line) # None) =>
       /\ last.res.tag = "Ok"
       /\ last.res.val.callsign = Some(b[1].cs)

Upper(tok) == to_uppercase(tok)

\* The status the priority order assigns to a token.
StatusByPriority(tok) ==
  CASE contains(Upper(tok), <<"N", "O">>) -> "NoFix"
    [] ~contains(Upper(tok), <<"N", "O">>)
         /\ contains(Upper(tok), <<"D", "I", "F", "F">>) -> "Diff"
    [] ~contains(Upper(tok), <<"N", "O">>)
         /\ ~contains(Upper(tok), <<"D", "I", "F", "F">>)
         /\ contains(Upper(tok), <<"E", "S", "T">>) -> "Est"
    [] ~contains(Upper(tok), <<"N", "O">>)
         /\ ~contains(Upper(tok), <<"D", "I", "F", "F">>)
         /\ ~contains(Upper(tok), <<"E", "S", "T">>)
         /\ contains(Upper(tok), <<"F", "I", "X">>) -> "Fix"
    [] OTHER -> "Unknown"

\* The status of an extraction result: a line that yields nothing has none.
StatusOf(res) == IF res.tag = "Ok" THEN res.val.fix_status ELSE "Unknown"

\* C13: the status of an extracted line is the one the priority order NO, DIFF,
\* EST, FIX assigns to its fix-status token (compared in upper case), Unknown for
\* any other token; without a fix-status token it is NoFix when the line holds the
\* no-fix phrase and Unknown otherwise; the phrase has no effect on a line that
\* has a fix-status token.
C13_FixStatusPriority ==
  LastIsExtract =>
    LET f == RE_FIX(last.line)
    IN StatusOf(last.res) =
         (IF f # None THEN StatusByPriority(f[1].tok)
          ELSE IF RE_NOFIX(last.line) THEN "NoFix"
          ELSE "Unknown")

C13_Witness ==
  /\ LastIsExtract
  /\ last.line = "Fix status: ESTFIX"
  /\ last.res.tag = "Ok"
  /\ last.res.val.fix_status = "Est"

\* Some(n) when lo <= n <= hi, None otherwise.
InRange(n, lo, hi) == IF lo <= n /\ n <= hi THEN Some(n) ELSE None

\* C14: each numeric field of the result is present exactly when its matched
\* number fits the target type (node_id and satellites_count 0..255, rssi 16-bit
\* signed, snr 8-bit signed) and then holds that number, independently of the
\* other fields of the line; the line is NoMatch only when no field is populated
\* and the status is Unknown.
C14_CoercionPerField ==
  LastIsExtract =>
    LET a == RE_HEADER_NODE(last.line)
        b == RE_HEADER_LICENSED_NOFIX(last.line)
        h == IF a # None THEN a ELSE b
        sats == RE_SATS(last.line)
        node_id == IF h # None THEN InRange(h[1].id, 0, 255) ELSE None
        rssi == IF h # None THEN InRange(h[1].rssi, -32768, 32767) ELSE None
        snr == IF h # None THEN InRange(h[1].snr, -128, 127) ELSE None
        count == IF sats # None THEN InRange(sats[1].n, 0, 255) ELSE None
        others == \/ RE_LAT(last.line) # None
                  \/ RE_LON(last.line) # None
                  \/ RE_CALLSIGN(last.line) # None
                  \/ (a = None /\ b # None)
                  \/ RE_FIX(last.line) # None /\ StatusByPriority(RE_FIX(last.line)[1].tok) # "Unknown"
                  \/ RE_FIX(last.line) = None /\ RE_NOFIX(last.line)
        populated == node_id # None \/ rssi # None \/ snr # None \/ count # None \/ others
    IN /\ last.res.tag = "Ok" <=> populated
       /\ last.res.tag = "Ok" =>
            /\ last.res.val.node_id = node_id
            /\ last.res.val.receiver_rssi = rssi
            /\ last.res.val.receiver_snr = snr
            /\ last.res.val.satellites_count = count
            /\ RE_LAT(last.line) # None => last.res.val.latitude # None
            /\ RE_LON(last.line) # None => last.res.val.longitude # None
            /\ RE_CALLSIGN(last.line) # None => last.res.val.callsign # None

C14_Witness ==
  /\ LastIsExtract
  /\ last.line = "Node 300: (20 bytes | -72 dBm | 9 dB):"
  /\ last.res.tag = "Ok"
  /\ last.res.val.node_id = None
  /\ last.res.val.receiver_rssi = Some(-72)
  /\ last.res.val.receiver_snr = Some(9)

------------------------------------------------------------------------------
(* The reader thread again *)

\* C5: a packet-start line that finds a record in progress emits that record
\* unchanged (no field, no source line of the header in it) before anything the
\* line yields, and what the line yields goes only into a new record; at most one
\* record is in progress at any time.
C5_FlushBeforeStart ==
  /\ Cardinality({t \in Threads : current[t] # None}) <= 1
  /\ (LastIsLine /\ is_packet_start(last.line) /\ last.before # None) =>
       /\ Len(last.out) >= 2
       /\ last.out[2].ev = "serial-packet"
       /\ last.out[2].payload = last.before[1]
       /\ IF LastRes.tag = "Ok"
            THEN IF is_packet_end(last.line)
                   THEN last.after = None /\ LastPackets = << last.before[1], LastRes.val >>
                   ELSE last.after = Some(LastRes.val) /\ LastPackets = << last.before[1] >>
            ELSE last.after = None /\ LastPackets = << last.before[1] >>

C5_Witness ==
  /\ LastIsLine
  /\ is_packet_start(last.line)
  /\ ~is_packet_end(last.line)
  /\ last.before # None
  /\ LastRes.tag = "Ok"
  /\ Len(last.before[1].raw_lines) >= 2

\* C6 as stated: a packet-end line processed with a record in progress makes that
\* record be emitted and cleared while the line is processed, whether the line's
\* extraction succeeded or returned NoMatch.
C6_EndAlwaysEmits ==
  (LastIsLine /\ is_packet_end(last.line) /\ ~is_packet_start(last.line)
     /\ last.before # None) =>
    /\ last.after = None
    /\ Len(LastPackets) = 1

RECURSIVE ConcatLines(_)
ConcatLines(pkts) ==
  IF pkts = <<>> THEN <<>> ELSE Head(pkts).raw_lines \o ConcatLines(Tail(pkts))

InputLines == Payloads(SelectSeq(events, LAMBDA e : e.ev = "serial-line"))
OkInputLines == SelectSeq(InputLines, Extracts)
CurrentLines(t) == IF current[t] # None THEN current[t][1].raw_lines ELSE <<>>

\* C7: the source lines of the records emitted so far, in emission order, followed
\* by those of the record in progress, are exactly the input lines whose extraction
\* succeeded, in arrival order; once the reader has ended nothing is in progress, so
\* the emitted records alone account for every such line once.
C7_LineAccounting ==
  opens > 0 =>
    LET emitted == ConcatLines(Payloads(Packets(events)))
    IN /\ emitted \o CurrentLines(opens) = OkInputLines
       /\ rpc[opens] = "done" => emitted = OkInputLines

C7_Witness ==
  /\ opens = 1
  /\ rpc[1] = "done"
  /\ Len(Packets(events)) = 2
  /\ Len(OkInputLines) = 2
  /\ Len(InputLines) = 3

IsHeader(l) == LineInfo[l].start /\ ~LineInfo[l].end
IsFieldLine(l) == ~LineInfo[l].start /\ ~LineInfo[l].end
IsTerminator(l) ==
  /\ LineInfo[l].end
  /\ ~LineInfo[l].start
  /\ Extracts(l)
  /\ LineInfo[l].res.val.fix_status # "Unknown"

\* One header, then field lines, then one terminating line with a recognized status.
IsOnePacket(ls) ==
  /\ Len(ls) >= 2
  /\ IsHeader(ls[1])
  /\ \A i \in 2..(Len(ls) - 1) : IsFieldLine(ls[i])
  /\ IsTerminator(ls[Len(ls)])

\* The last present value of field f among the lines, None when no line supplies it.
LastPresent(f, ls) ==
  LET has == { i \in 1..Len(ls) : Extracts(ls[i]) /\ LineInfo[ls[i]].res.val[f] # None }
  IN IF has = {} THEN None
     ELSE LineInfo[ls[CHOOSE i \in has : \A j \in has : j <= i]].res.val[f]

\* C8: when the lines read since the port was opened are one header, any number
\* of field lines and one terminating line with a recognized status, exactly one
\* record has been emitted, as the last event and right after the terminating line
\* was read, no record is left in progress, and each field of the record is the
\* last present value of that field among those lines.
C8_OnePacketPerTransmission ==
  IsOnePacket(InputLines) =>
    /\ Len(Packets(events)) = 1
    /\ events[Len(events)].ev = "serial-packet"
    /\ events[Len(events) - 1] = Event("serial-line", InputLines[Len(InputLines)], TRUE)
    /\ \A t \in Threads : current[t] = None
    /\ LET pkt == events[Len(events)].payload
       IN /\ \A f \in OptFields : pkt[f] = LastPresent(f, InputLines)
          /\ pkt.fix_status = LineInfo[InputLines[Len(InputLines)]].res.val.fix_status

C8_Witness ==
  /\ IsOnePacket(InputLines)
  /\ Len(InputLines) = 3
  /\ LastPresent("callsign", << InputLines[1] >>) = Some("KD2YIE")
  /\ Len(Packets(events)) = 1
  /\ Packets(events)[1].payload.callsign = Some("W1AW")
  /\ Packets(events)[1].payload.node_id = Some(1)
  /\ Packets(events)[1].payload.fix_status = "Fix"

\* C9: a line whose extraction returns NoMatch reports exactly one parse
\* diagnostic, carrying the raw line and the error kind, as the last event of the
\* step; the extraction leaves the record in progress as the flush-before-start
\* step left it (unchanged for a line that is no header), no record is emitted for
\* the line itself, and the reader goes back to the head of its loop.
C9_NoMatchFrame ==
  [][ (clock' = clock + 1 /\ last'.op = "line"
         /\ parse_zephyr_line(last'.line, last'.now).tag = "Err") =>
        LET t == last'.tid
            out == last'.out
            diag == SelectSeq(out, LAMBDA e : e.ev = "serial-parse-error")
            flushed == is_packet_start(last'.line) /\ current[t] # None
        IN /\ Len(diag) = 1
           /\ diag[1].payload = [line |-> last'.line, error |-> "NoMatch"]
           /\ out[Len(out)] = diag[1]
           /\ current'[t] = (IF is_packet_start(last'.line) THEN None ELSE current[t])
           /\ Payloads(Packets(out)) = (IF flushed THEN << current[t][1] >> ELSE <<>>)
           /\ events' = events \o out
           /\ rpc'[t] = "loop" ]_vars

C9_Witness ==
  /\ LastIsLine
  /\ LastRes.tag = "Err"
  /\ ~is_packet_start(last.line)
  /\ last.before # None
  /\ last.after = last.before
  /\ current[last.tid] = last.before
  /\ rpc[last.tid] = "loop"

Shape(evs) == [i \in 1..Len(evs) |-> [ev |-> evs[i].ev, payload |-> evs[i].payload]]

\* C10: a step in which the sink rejects an emission leaves the same record in
\* progress and makes the same emit calls as the step in which the sink accepts it,
\* so the rejected record is out of the slot and later lines are processed the same
\* way; and no record is handed to the sink twice.
C10_EmitFailureSwallowed ==
  /\ (last.op \in {"line", "flush"} /\ Len(Failed(last.out)) > 0) =>
       LET good == IF last.op = "line"
                     THEN process_line(last.before, last.line, last.now, TRUE)
                     ELSE shutdown_flush(last.before, TRUE)
       IN /\ last.after = good.current
          /\ Shape(last.out) = Shape(good.out)
          /\ current[last.tid] = last.after
          /\ \A i \in 1..Len(last.out) :
               last.out[i].ev = "serial-packet" => last.after # Some(last.out[i].payload)
  /\ LET sent == Packets(events)
     IN \A j \in 2..Len(sent) : \A i \in 1..(j - 1) : sent[i].payload # sent[j].payload

C10_Witness ==
  /\ LastIsLine
  /\ Len(Failed(last.out)) = 1
  /\ Len(InputLines) >= 2
  /\ last.before # None
  /\ last.after # None
  /\ current[last.tid] = last.after

\* C11: the number of emitted records grows only in a step that processes a
\* packet-end line, in a step that processes a packet-start line while a record is
\* in progress, or in the final flush; a step that processes a plain line emits no
\* record, whatever the line yields and whether or not a record is in progress.
C11_EmissionSites ==
  [][ Len(Packets(events')) > Len(Packets(events)) =>
        \/ /\ last'.op = "flush"
           /\ rpc[last'.tid] = "flush"
           /\ rpc'[last'.tid] = "done"
        \/ /\ last'.op = "line"
           /\ clock' = clock + 1
           /\ \/ LineInfo[last'.line].end
              \/ LineInfo[last'.line].start /\ current[last'.tid] # None ]_vars

C11_Witness ==
  /\ LastIsLine
  /\ IsFieldLine(last.line)
  /\ Extracts(last.line)
  /\ last.before # None
  /\ last.after # None
  /\ LastPackets = <<>>
  /\ Len(Packets(events)) = 1

\* The record's timestamp is the clock reading taken for the last of its source
\* lines: inp are the input lines, okAt the arrival numbers of those that extracted
\* (the reader takes its i-th clock reading when it extracts the i-th input line),
\* prev the timestamp of the record emitted before this one, 0 for the first.
StampedByLastLine(pkt, inp, okAt, prev) ==
  LET ts == pkt.timestamp_ms
  IN /\ ts \in okAt
     /\ inp[ts] = pkt.raw_lines[Len(pkt.raw_lines)]
     /\ Cardinality({ j \in okAt : prev < j /\ j <= ts }) = Len(pkt.raw_lines)

\* C15: the timestamp of every emitted record and of the record in progress is
\* the clock reading taken when the last of its source lines was extracted: the
\* record's source lines are exactly the lines that extracted after the previous
\* record's reading and up to its own, and the record in progress carries the
\* reading of the most recent line that extracted, later NoMatch lines
\* notwithstanding.
C15_CapturedAtLastLine ==
  opens > 0 =>
    LET inp == InputLines
        okAt == { j \in 1..Len(inp) : Extracts(inp[j]) }
        sent == Payloads(Packets(events))
        cur == current[opens]
        n == Len(sent)
    IN /\ \A i \in 1..n :
            StampedByLastLine(sent[i], inp, okAt,
                              IF i = 1 THEN 0 ELSE sent[i - 1].timestamp_ms)
       /\ cur # None =>
            /\ StampedByLastLine(cur[1], inp, okAt,
                                 IF n = 0 THEN 0 ELSE sent[n].timestamp_ms)
            /\ \A j \in okAt : j <= cur[1].timestamp_ms

C15_Witness ==
  /\ LastIsLine
  /\ ~Extracts(last.line)
  /\ Len(InputLines) = 3
  /\ current[opens] # None
  /\ current[opens][1].timestamp_ms = 2
  /\ Len(current[opens][1].raw_lines) = 2

\* C16 as stated: between any two line-processing steps the record in progress,
\* if there is one, has fix_status Unknown.
C16_InProgressUnknown ==
  \A t \in Threads : current[t] # None => current[t][1].fix_status = "Unknown"

Live == { t \in Threads : rpc[t] \in {"loop", "read", "flush"} }

\* C17: at most one reader thread is alive at any time; an open_port that answers
\* 'Port already open' found a handle stored and leaves the stored stop flag,
\* handle and writer, the threads and the open count as they were; an open_port
\* that succeeds found no handle stored, no close_port in progress and every
\* earlier reader thread ended.
C17_SingleReader ==
  [][ /\ Cardinality({ t \in Threads : rpc'[t] \in {"loop", "read", "flush"} }) <= 1
      /\ (ret' = "Port already open" /\ ret # "Port already open") =>
           /\ state.handle # None
           /\ state' = state
           /\ rpc' = rpc
           /\ stop' = stop
           /\ opens' = opens
      /\ opens' # opens =>
           /\ state.handle = None
           /\ joining = None
           /\ Live = {}
           /\ ret' = "ok"
           /\ state'.handle = Some(opens')
           /\ rpc'[opens'] = "loop" ]_vars

C17_Witness ==
  /\ ret = "Port already open"
  /\ opens = 2
  /\ rpc[1] = "done"
  /\ state.handle = Some(2)
  /\ Live = {2}
  /\ events # <<>>

\* C18: close_port returns only once the reader thread it stopped has ended, its
\* final flush done and nothing left in progress; while no handle is stored and
\* no close_port is waiting, no reader is alive and no event is emitted; and a
\* close_port that waits for the reader eventually returns.
C18_CloseWaitsForReader ==
  /\ [][ /\ (joining # None /\ joining' = None) =>
              /\ rpc[joining[1]] = "done"
              /\ current[joining[1]] = None
              /\ last.op = "flush"
              /\ last.tid = joining[1]
              /\ ret' = "closed"
         /\ (state'.handle = None /\ joining' = None) =>
              /\ \A t \in Threads : rpc'[t] \in {"unborn", "done"}
              /\ \A t \in Threads : current'[t] = None
         /\ (state.handle = None /\ joining = None) =>
              (events' = events \/ opens' = opens + 1) ]_vars
  /\ (joining # None) ~> (joining = None /\ ret = "closed")

C18_Witness ==
  /\ ret = "closed"
  /\ joining = None
  /\ state.handle = None
  /\ last.op = "flush"
  /\ last.before # None
  /\ events[Len(events)] = Event("serial-packet", last.before[1], TRUE)
  /\ Len(InputLines) = 2

\* A record holds at least one source line, each a line that extracted, and at
\* least one present optional field or a status other than Unknown.
NonEmpty(pkt) ==
  /\ Len(pkt.raw_lines) >= 1
  /\ \A k \in 1..Len(pkt.raw_lines) : Extracts(pkt.raw_lines[k])
  /\ \/ \E f \in OptFields : pkt[f] # None
     \/ pkt.fix_status # "Unknown"

\* C19: every emitted record and the record in progress are non-empty; a line
\* whose extraction returns NoMatch creates no record, and a packet-start line
\* whose extraction returns NoMatch leaves no record in progress.
C19_NonEmptyRecords ==
  /\ \A i \in 1..Len(events) :
       events[i].ev = "serial-packet" => NonEmpty(events[i].payload)
  /\ \A t \in Threads : current[t] # None => NonEmpty(current[t][1])
  /\ (LastIsLine /\ ~Extracts(last.line)) =>
       /\ last.before = None => last.after = None
       /\ LineInfo[last.line].start => last.after = None
       /\ current[last.tid] = last.after

C19_Witness ==
  /\ LastIsLine
  /\ LineInfo[last.line].start
  /\ ~Extracts(last.line)
  /\ last.before # None
  /\ last.after = None
  /\ LastPackets = << last.before[1] >>


====
